---------------------------- MODULE Spec2Model ----------------------------
(***************************************************************************)
(* html5-escape: the Escaper of src/src/entities.ts (and its near-duplicate *)
(* in src/unnamed/part_000), the two lookup tables it reads, and the       *)
(* JavaScript objects its configuration lives in.                          *)
(*                                                                         *)
(* A string is a sequence of Unicode code points (naturals).  Every input  *)
(* the model draws is well formed, so a code point stands for the one or   *)
(* two UTF-16 code units JavaScript stores it in: the patterns without the *)
(* u flag only name code points below U+0100, and the one pattern that     *)
(* reaches the supplementary planes carries the u flag.                    *)
(***************************************************************************)
EXTENDS Integers, Sequences, FiniteSets, TLC

VARIABLES
  defaults,   \* Options.defaults: the exported, mutable defaults object
  arrays,     \* the heap of escapeRanges arrays: reference -> its elements
  options,    \* the object the caller passed to the constructor
  escaper,    \* the Escaper instance: its class and its _options
  built,      \* the configuration the instance had when the constructor returned
  value,      \* the argument of the last call
  op,         \* the operation of the last call ("none" before the first)
  out,        \* what the last call returned
  path        \* the pipeline stages the last call ran, in order

vars == <<defaults, arrays, options, escaper, built, value, op, out, path>>

---------------------------------------------------------------------------
(* Bounds of the model *)

\* The longest input drawn from Alphabet.
MaxLen == 2

\* Code points the inputs are built from: NUL, form feed, space, '"', '#',
\* '&', "'", '1', '<', 'a', NBSP, e-acute.
Alphabet == {0, 12, 32, 34, 35, 38, 39, 49, 60, 97, 160, 233}

\* The documented scenarios and the strings the claims name:
\*   '< Abbott & Costello &me; "on first"', 'a "b" c', "a 'b' c", 'a b',
\*   '&lt;', '&#60;', ' b<', soft hyphen and '<', U+9999A.
Examples ==
  { <<60, 32, 65, 98, 98, 111, 116, 116, 32, 38, 32, 67, 111, 115, 116, 101,
      108, 108, 111, 32, 38, 109, 101, 59, 32, 34, 111, 110, 32, 102, 105,
      114, 115, 116, 34>>,
    <<97, 32, 34, 98, 34, 32, 99>>,
    <<97, 32, 39, 98, 39, 32, 99>>,
    <<97, 32, 98>>,
    <<38, 108, 116, 59>>,
    <<38, 35, 54, 48, 59>>,
    <<32, 98, 60>>,
    <<173, 60>>,
    <<629146>> }

Strings(n) == UNION {[1..k -> Alphabet] : k \in 0..n}

Inputs == Strings(MaxLen) \cup Examples

---------------------------------------------------------------------------
(* Strings *)

RECURSIVE Flatten(_)
Flatten(ss) == IF ss = <<>> THEN <<>> ELSE Head(ss) \o Flatten(Tail(ss))

\* Number.prototype.toString(radix) of a non-negative integer: lowercase
\* digits, no leading zero.
DigitChar(d) == IF d < 10 THEN 48 + d ELSE 87 + d

RECURSIVE ToStringRadix(_, _)
ToStringRadix(n, radix) ==
  IF n < radix THEN <<DigitChar(n)>>
  ELSE Append(ToStringRadix(n \div radix, radix), DigitChar(n % radix))

\* codePoint.toString(16).toUpperCase()
ToString16Upper(n) ==
  [i \in DOMAIN ToStringRadix(n, 16) |->
     LET d == ToStringRadix(n, 16)[i] IN IF d >= 97 THEN d - 32 ELSE d]

\* codePoint.toString(16)
ToString16(n) == ToStringRadix(n, 16)

\* `${codePoint}`
ToString10(n) == ToStringRadix(n, 10)

---------------------------------------------------------------------------
(* The tables *)

\* data/entities.json as data-scripts/entities.js writes it from the HTML 5.2
\* entities.json: for each character the greatest of its entity names,
\* which is the one ending in a semicolon ('&amp;' over '&amp', '&AMP;' and
\* '&AMP'; the examples in the Escaper's comments show '&lt;', '&amp;' and
\* '&quot;').  The rows kept are those of the characters the patterns of
\* the Escaper can select among the inputs of the model, and of the soft
\* hyphen.
entities ==
  { [character |-> <<9>>,   entity |-> <<38, 84, 97, 98, 59>>],
    [character |-> <<10>>,  entity |-> <<38, 78, 101, 119, 76, 105, 110, 101, 59>>],
    [character |-> <<34>>,  entity |-> <<38, 113, 117, 111, 116, 59>>],
    [character |-> <<38>>,  entity |-> <<38, 97, 109, 112, 59>>],
    [character |-> <<39>>,  entity |-> <<38, 97, 112, 111, 115, 59>>],
    [character |-> <<60>>,  entity |-> <<38, 108, 116, 59>>],
    [character |-> <<61>>,  entity |-> <<38, 101, 113, 117, 97, 108, 115, 59>>],
    [character |-> <<62>>,  entity |-> <<38, 103, 116, 59>>],
    [character |-> <<96>>,  entity |-> <<38, 103, 114, 97, 118, 101, 59>>],
    [character |-> <<160>>, entity |-> <<38, 110, 98, 115, 112, 59>>],
    [character |-> <<173>>, entity |-> <<38, 115, 104, 121, 59>>],
    [character |-> <<233>>, entity |-> <<38, 101, 97, 99, 117, 116, 101, 59>>] }

\* data/replacements.json (data/map.json in src/unnamed/part_000), which
\* is not among the source files: the rows the specification names, NBSP
\* to space and soft hyphen to hyphen-minus.
map ==
  { [from |-> <<160>>, to |-> <<32>>],
    [from |-> <<173>>, to |-> <<45>>] }

\* for (const { entity, character } of entities) lookup.set(character, entity)
entityLookup ==
  [c \in {e.character : e \in entities} |->
     (CHOOSE e \in entities : e.character = c).entity]

\* for (const { from, to } of map) lookup.set(from, to)
replacementLookup ==
  [c \in {r.from : r \in map} |-> (CHOOSE r \in map : r.from = c).to]

---------------------------------------------------------------------------
(* Options *)

EscapeRange == {"control", "nonbreaking-space", "non-ascii"}
EscapeBase == {10, 16}
Variants == {"entities", "part_000"}

\* { ...Options.defaults, ...options }: a shallow copy, the fields of
\* `options` first.  The escapeRanges field holds a reference to an array.
Merge(dflt, opts) ==
  [f \in DOMAIN dflt |-> IF f \in DOMAIN opts THEN opts[f] ELSE dflt[f]]

\* new Escaper(options)
Construct(variant, dflt, opts) ==
  [variant |-> variant, options |-> Merge(dflt, opts)]

\* What this._options reads as, given the heap: escapeRanges dereferenced.
Deref(e, heap) ==
  [variant     |-> e.variant,
   escapeRanges |-> heap[e.options.escapeRanges],
   escapeBase  |-> e.options.escapeBase,
   forceEscape |-> e.options.forceEscape]

---------------------------------------------------------------------------
(* The Escaper *)

NUL == 0
ReplacementCharacter == 65533
Ampersand == 38

\* \w without the u and i flags: [A-Za-z0-9_]
IsWord(c) ==
  \/ c >= 65 /\ c <= 90
  \/ c >= 97 /\ c <= 122
  \/ c >= 48 /\ c <= 57
  \/ c = 95

\* [a-zA-Z0-9]
IsAlnum(c) ==
  \/ c >= 97 /\ c <= 122
  \/ c >= 65 /\ c <= 90
  \/ c >= 48 /\ c <= 57

\* /^[\w ]*/ without the closing anchor matches every string.
IsSafeUnanchored(v) == TRUE

\* /^[\w ]*$/.test(value)
isSafe(v) == \A i \in DOMAIN v : IsWord(v[i]) \/ v[i] = 32

\* replaceNull left out of the pipeline.
ReplaceNullSkipped(v) == v

\* value.replace(/\0/g, '\ufffd')
replaceNull(v) ==
  [i \in DOMAIN v |-> IF v[i] = NUL THEN ReplacementCharacter ELSE v[i]]

\* `&#${codePoint}` or `&#x${codePoint.toString(16)}`
NumericReference(codePoint, base) ==
  CASE base = 10 -> <<38, 35>> \o ToString10(codePoint)
    [] base = 16 -> <<38, 35, 120>> \o ToString16(codePoint)

\* _escapeCharacter without its forceEscape test.
EscapeCharacterForced(character, o) ==
  LET c == IF character \in DOMAIN replacementLookup
           THEN replacementLookup[character] ELSE character
  IN  IF c \in DOMAIN entityLookup THEN entityLookup[c]
      ELSE NumericReference(c[1], o.escapeBase)

\* Escaper._escapeCharacter
EscapeCharacter(character, o) ==
  IF character \in DOMAIN replacementLookup /\ ~o.forceEscape
  THEN character
  ELSE LET c == IF character \in DOMAIN replacementLookup
                THEN replacementLookup[character] ELSE character
       IN  IF c \in DOMAIN entityLookup THEN entityLookup[c]
           ELSE NumericReference(c[1], o.escapeBase)

\* value.replace(pattern, string => this._escapeCharacter(string)) for a
\* pattern matching one code point at each position of `hits`.
ReplaceAt(v, hits, o) ==
  Flatten([i \in DOMAIN v |->
             IF i \in hits THEN EscapeCharacter(<<v[i]>>, o) ELSE <<v[i]>>])

\* /&/g: the pattern without its lookahead.
AmpersandHitsAll(v) == {i \in DOMAIN v : v[i] = Ampersand}

\* the matches of /&(?=[a-zA-Z0-9])/g
AmpersandHits(v) ==
  {i \in DOMAIN v : v[i] = Ampersand /\ i < Len(v) /\ IsAlnum(v[i + 1])}

\* Escaper._escapeAmpersand
EscapeAmpersand(v, o) == ReplaceAt(v, AmpersandHits(v), o)

\* [\0-\x1F\x7f\x80-\x9f]
InControl(c) == (c >= 0 /\ c <= 31) \/ c = 127 \/ (c >= 128 /\ c <= 159)

\* \xa0
InNonbreakingSpace(c) == c = 160

\* The last code point of the non-ascii pattern: [\x80-\u{99999}] in
\* src/src/entities.ts, [\x80-\u9999] in src/unnamed/part_000.
NonAsciiLast(variant) == IF variant = "entities" THEN 629145 ELSE 39321

InNonAscii(c, variant) == c >= 128 /\ c <= NonAsciiLast(variant)

\* Escaper._escapeRanges
EscapeRanges(v, o) ==
  LET v1 == IF "control" \in o.escapeRanges
            THEN ReplaceAt(v, {i \in DOMAIN v : InControl(v[i])}, o)
            ELSE v
      v2 == IF "nonbreaking-space" \in o.escapeRanges
            THEN ReplaceAt(v1, {i \in DOMAIN v1 : InNonbreakingSpace(v1[i])}, o)
            ELSE v1
      v3 == IF "non-ascii" \in o.escapeRanges
            THEN ReplaceAt(v2, {i \in DOMAIN v2 : InNonAscii(v2[i], o.variant)}, o)
            ELSE v2
  IN  v3

\* The positions of `v` holding a code point of the character class `cls`.
Matches(v, cls) == {i \in DOMAIN v : v[i] \in cls}

\* Escaper.escapeData: /</g
EscapeData(v, o) ==
  IF ~isSafe(v)
  THEN LET v1 == replaceNull(v)
           v2 == EscapeAmpersand(v1, o)
           v3 == ReplaceAt(v2, Matches(v2, {60}), o)
       IN  EscapeRanges(v3, o)
  ELSE v

\* Escaper.escapeDoubleQuotedAttribute: /"/g
EscapeDoubleQuotedAttribute(v, o) ==
  IF ~isSafe(v)
  THEN LET v1 == replaceNull(v)
           v2 == EscapeAmpersand(v1, o)
           v3 == ReplaceAt(v2, Matches(v2, {34}), o)
       IN  EscapeRanges(v3, o)
  ELSE v

\* Escaper.escapeSingleQuotedAttribute: /'/g
EscapeSingleQuotedAttribute(v, o) ==
  IF ~isSafe(v)
  THEN LET v1 == replaceNull(v)
           v2 == EscapeAmpersand(v1, o)
           v3 == ReplaceAt(v2, Matches(v2, {39}), o)
       IN  EscapeRanges(v3, o)
  ELSE v

\* Escaper.escapeUnquotedAttribute: /[\t\n\f <>="'`]/g
EscapeUnquotedAttribute(v, o) ==
  IF ~isSafe(v)
  THEN LET v1 == replaceNull(v)
           v2 == EscapeAmpersand(v1, o)
           v3 == ReplaceAt(v2, Matches(v2, {9, 10, 12, 32, 60, 62, 61, 34, 39, 96}), o)
       IN  EscapeRanges(v3, o)
  ELSE v

OpNames == {"escapeData", "escapeDoubleQuotedAttribute",
            "escapeSingleQuotedAttribute", "escapeUnquotedAttribute"}

\* escaper[name](v)
Escape(name, v, o) ==
  CASE name = "escapeData" -> EscapeData(v, o)
    [] name = "escapeDoubleQuotedAttribute" -> EscapeDoubleQuotedAttribute(v, o)
    [] name = "escapeSingleQuotedAttribute" -> EscapeSingleQuotedAttribute(v, o)
    [] name = "escapeUnquotedAttribute" -> EscapeUnquotedAttribute(v, o)

\* The stages an operation runs on `v`: none on the fast path, else
\* replaceNull, _escapeAmpersand, its own replace, _escapeRanges.
Stages(v) ==
  IF ~isSafe(v)
  THEN <<"replaceNull", "escapeAmpersand", "context", "escapeRanges">>
  ELSE <<>>

---------------------------------------------------------------------------
(* The state machine *)

DefaultsArray == "defaultsArray"
CallerArray == "callerArray"

\* Options.defaults as the module creates it.
InitialDefaults ==
  [escapeRanges |-> DefaultsArray, escapeBase |-> 16, forceEscape |-> TRUE]

Opts == Deref(escaper, arrays)

\* After the constructor returned: any class, any options.
Init ==
  /\ defaults = InitialDefaults
  /\ \E r \in SUBSET EscapeRange :
       arrays = [a \in {DefaultsArray, CallerArray} |->
                   IF a = DefaultsArray THEN {"control", "nonbreaking-space"} ELSE r]
  /\ \E b \in EscapeBase, f \in BOOLEAN :
       options = [escapeRanges |-> CallerArray, escapeBase |-> b, forceEscape |-> f]
  /\ \E variant \in Variants : escaper = Construct(variant, defaults, options)
  /\ built = Deref(escaper, arrays)
  /\ value = <<>>
  /\ op = "none"
  /\ out = <<>>
  /\ path = <<>>

\* A caller invokes one operation at a time (the operations are synchronous)
\* and takes the result before the next call.
escapeData ==
  /\ op = "none"
  /\ \E v \in Inputs :
       /\ value' = v
       /\ out' = EscapeData(v, Opts)
       /\ path' = Stages(v)
  /\ op' = "escapeData"
  /\ UNCHANGED <<defaults, arrays, options, escaper, built>>

escapeDoubleQuotedAttribute ==
  /\ op = "none"
  /\ \E v \in Inputs :
       /\ value' = v
       /\ out' = EscapeDoubleQuotedAttribute(v, Opts)
       /\ path' = Stages(v)
  /\ op' = "escapeDoubleQuotedAttribute"
  /\ UNCHANGED <<defaults, arrays, options, escaper, built>>

escapeSingleQuotedAttribute ==
  /\ op = "none"
  /\ \E v \in Inputs :
       /\ value' = v
       /\ out' = EscapeSingleQuotedAttribute(v, Opts)
       /\ path' = Stages(v)
  /\ op' = "escapeSingleQuotedAttribute"
  /\ UNCHANGED <<defaults, arrays, options, escaper, built>>

escapeUnquotedAttribute ==
  /\ op = "none"
  /\ \E v \in Inputs :
       /\ value' = v
       /\ out' = EscapeUnquotedAttribute(v, Opts)
       /\ path' = Stages(v)
  /\ op' = "escapeUnquotedAttribute"
  /\ UNCHANGED <<defaults, arrays, options, escaper, built>>

\* The caller takes the returned string; the instance keeps nothing of the call.
Return ==
  /\ op # "none"
  /\ value' = <<>>
  /\ op' = "none"
  /\ out' = <<>>
  /\ path' = <<>>
  /\ UNCHANGED <<defaults, arrays, options, escaper, built>>

Next ==
  \/ escapeData
  \/ escapeDoubleQuotedAttribute
  \/ escapeSingleQuotedAttribute
  \/ escapeUnquotedAttribute
  \/ Return

Spec == Init /\ [][Next]_vars

---------------------------------------------------------------------------
(* The caller's side of the heap *)

\* The inputs the calls are made on while the caller changes its objects:
\* e-acute, form feed, NBSP, '<', NUL, 'a b'.
ProbeInputs == {<<233>>, <<12>>, <<160>>, <<60>>, <<0>>, <<97, 32, 98>>}

\* The options objects the caller constructs the Escaper from: {},
\* { escapeRanges }, and all three fields.
CallerOptions ==
  { <<>>,
    [escapeRanges |-> CallerArray],
    [escapeRanges |-> CallerArray, escapeBase |-> 10, forceEscape |-> FALSE] }

\* After new Escaper(options), the caller still holding `options`, its
\* escapeRanges array ['control'] and Options.defaults.
InitShared ==
  /\ defaults = InitialDefaults
  /\ arrays = [a \in {DefaultsArray, CallerArray} |->
                 IF a = DefaultsArray THEN {"control", "nonbreaking-space"}
                 ELSE {"control"}]
  /\ options \in CallerOptions
  /\ \E variant \in Variants : escaper = Construct(variant, defaults, options)
  /\ built = Deref(escaper, arrays)
  /\ value = <<>>
  /\ op = "none"
  /\ out = <<>>
  /\ path = <<>>

\* escaper[name](v), for any of the four operations.
CallOperation ==
  /\ op = "none"
  /\ \E name \in OpNames, v \in ProbeInputs :
       /\ value' = v
       /\ op' = name
       /\ out' = Escape(name, v, Opts)
       /\ path' = Stages(v)
  /\ UNCHANGED <<defaults, arrays, options, escaper, built>>

\* ranges.push(r) on the array the caller passed in options.escapeRanges.
PushCallerRange ==
  /\ op = "none"
  /\ \E r \in EscapeRange :
       /\ r \notin arrays[CallerArray]
       /\ arrays' = [arrays EXCEPT ![CallerArray] = @ \cup {r}]
  /\ UNCHANGED <<defaults, options, escaper, built, value, op, out, path>>

\* Options.defaults.escapeRanges.push(r)
PushDefaultRange ==
  /\ op = "none"
  /\ \E r \in EscapeRange :
       /\ r \notin arrays[defaults.escapeRanges]
       /\ arrays' = [arrays EXCEPT ![defaults.escapeRanges] = @ \cup {r}]
  /\ UNCHANGED <<defaults, options, escaper, built, value, op, out, path>>

\* options.escapeBase = b; options.forceEscape = f
SetCallerOption ==
  /\ op = "none"
  /\ \/ \E b \in EscapeBase :
          options' = [f \in DOMAIN options \cup {"escapeBase"} |->
                        IF f = "escapeBase" THEN b ELSE options[f]]
     \/ \E x \in BOOLEAN :
          options' = [f \in DOMAIN options \cup {"forceEscape"} |->
                        IF f = "forceEscape" THEN x ELSE options[f]]
  /\ options' # options
  /\ UNCHANGED <<defaults, arrays, escaper, built, value, op, out, path>>

\* Options.defaults.escapeBase = b; Options.defaults.forceEscape = f
SetDefault ==
  /\ op = "none"
  /\ \/ \E b \in EscapeBase : defaults' = [defaults EXCEPT !.escapeBase = b]
     \/ \E x \in BOOLEAN : defaults' = [defaults EXCEPT !.forceEscape = x]
  /\ defaults' # defaults
  /\ UNCHANGED <<arrays, options, escaper, built, value, op, out, path>>

NextShared ==
  \/ CallOperation
  \/ Return
  \/ PushCallerRange
  \/ PushDefaultRange
  \/ SetCallerOption
  \/ SetDefault

SpecShared == InitShared /\ [][NextShared]_vars

---------------------------------------------------------------------------
(* Vocabulary of the properties *)

Called == op # "none"

Range(s) == {s[i] : i \in DOMAIN s}

Drop(s, k) == SubSeq(s, k + 1, Len(s))

IsPrefix(p, s) == Len(p) <= Len(s) /\ SubSeq(s, 1, Len(p)) = p

IsDecDigit(c) == c >= 48 /\ c <= 57

IsLowerHexDigit(c) == IsDecDigit(c) \/ (c >= 97 /\ c <= 102)

IsHexDigit(c) == IsLowerHexDigit(c) \/ (c >= 65 /\ c <= 70)

DigitValue(c) ==
  IF IsDecDigit(c) THEN c - 48 ELSE IF c >= 97 THEN c - 87 ELSE c - 55

\* The number a run of digits denotes in the given radix.
RECURSIVE ParseRadix(_, _)
ParseRadix(ds, radix) ==
  IF ds = <<>> THEN 0
  ELSE ParseRadix(SubSeq(ds, 1, Len(ds) - 1), radix) * radix
         + DigitValue(ds[Len(ds)])

\* p is '&#' followed by the decimal digits of n.
IsDecimalReference(p, n) ==
  /\ Len(p) >= 3 /\ p[1] = 38 /\ p[2] = 35
  /\ \A i \in 3..Len(p) : IsDecDigit(p[i])
  /\ (Len(p) > 3 => p[3] # 48)
  /\ ParseRadix(Drop(p, 2), 10) = n

\* p is '&#x' followed by the lowercase hexadecimal digits of n.
IsHexReference(p, n) ==
  /\ Len(p) >= 4 /\ p[1] = 38 /\ p[2] = 35 /\ p[3] = 120
  /\ \A i \in 4..Len(p) : IsLowerHexDigit(p[i])
  /\ (Len(p) > 4 => p[4] # 48)
  /\ ParseRadix(Drop(p, 3), 16) = n

\* p has the shape of a reference the Escaper emits: a row of the Entity
\* Table, or a numeric reference in either base.
IsReference(p) ==
  \/ \E e \in entities : p = e.entity
  \/ /\ Len(p) >= 3 /\ p[1] = 38 /\ p[2] = 35
     /\ \A i \in 3..Len(p) : IsDecDigit(p[i])
  \/ /\ Len(p) >= 4 /\ p[1] = 38 /\ p[2] = 35 /\ p[3] = 120
     /\ \A i \in 4..Len(p) : IsLowerHexDigit(p[i])

\* U+0000 read as U+FFFD, every other code point as itself.
NulAsReplacement(c) == IF c = 0 THEN 65533 ELSE c

\* What a property requires of the rendering of one input character: one
\* of a set of exact pieces (Exactly), the character itself or any
\* reference (Free), or any reference (AReference).
Exactly(ps) == [free |-> FALSE, pieces |-> ps]
Free(c) == [free |-> TRUE, pieces |-> {<<NulAsReplacement(c)>>}]
AReference == [free |-> TRUE, pieces |-> {}]

\* s is the concatenation of one piece per requirement, in order.
RECURSIVE Renders(_, _)
Renders(reqs, s) ==
  IF reqs = <<>> THEN s = <<>>
  ELSE LET r == Head(reqs) IN
       \/ \E p \in r.pieces : IsPrefix(p, s) /\ Renders(Tail(reqs), Drop(s, Len(p)))
       \/ /\ r.free
          /\ \E k \in 2..Len(s) :
               IsReference(SubSeq(s, 1, k)) /\ Renders(Tail(reqs), Drop(s, k))

\* The mandatory targets of each context.
MandatoryTargets(name) ==
  CASE name = "escapeData" -> {60}
    [] name = "escapeDoubleQuotedAttribute" -> {34}
    [] name = "escapeSingleQuotedAttribute" -> {39}
    [] name = "escapeUnquotedAttribute" -> {9, 10, 12, 32, 60, 62, 61, 34, 39, 96}
    [] OTHER -> {}

IsAsciiLetterOrDigit(c) == c \in (48..57) \cup (65..90) \cup (97..122)

\* The '&' at position i of v stands before an ASCII letter or digit.
AmpersandBeforeAlnum(v, i) ==
  v[i] = 38 /\ i < Len(v) /\ IsAsciiLetterOrDigit(v[i + 1])

WordOrSpaceOnly(v) ==
  \A i \in DOMAIN v :
    v[i] \in (65..90) \cup (97..122) \cup (48..57) \cup {95, 32}

AbbottAndCostello ==
  <<60, 32, 65, 98, 98, 111, 116, 116, 32, 38, 32, 67, 111, 115, 116, 101,
    108, 108, 111, 32, 38, 109, 101, 59, 32, 34, 111, 110, 32, 102, 105,
    114, 115, 116, 34>>

AbbottAndCostelloEscaped ==
  <<38, 108, 116, 59, 32, 65, 98, 98, 111, 116, 116, 32, 38, 32, 67, 111,
    115, 116, 101, 108, 108, 111, 32, 38, 97, 109, 112, 59, 109, 101, 59,
    32, 34, 111, 110, 32, 102, 105, 114, 115, 116, 34>>

---------------------------------------------------------------------------
(* C1 *)

\* C1: after any of the four operations, on any input and configuration, no
\* mandatory target character of the operation's context occurs in the
\* output (a reference never contains one, so an occurrence is a raw one);
\* and escapeUnquotedAttribute('a b') is 'a&#x20b' under the default base.
C1_NoRawTarget ==
  Called =>
    /\ \A i \in DOMAIN out : out[i] \notin MandatoryTargets(op)
    /\ (op = "escapeUnquotedAttribute" /\ value = <<97, 32, 98>>
          /\ Opts.escapeBase = 16)
         => out = <<97, 38, 35, 120, 50, 48, 98>>

---------------------------------------------------------------------------
(* C2 *)

\* C2: when the fast path is not taken, the output is the input rendered
\* character by character with every '&' that stands before an ASCII letter
\* or digit rendered as '&amp;' and every other '&' rendered as itself; and
\* escapeData('< Abbott & Costello &me; "on first"') is
\* '&lt; Abbott & Costello &amp;me; "on first"'.
C2_AmpersandRule ==
  (Called /\ path # <<>>) =>
    /\ Renders([i \in DOMAIN value |->
                  IF AmpersandBeforeAlnum(value, i)
                  THEN Exactly({<<38, 97, 109, 112, 59>>})
                  ELSE IF value[i] = 38 THEN Exactly({<<38>>})
                  ELSE Free(value[i])],
               out)
    /\ (op = "escapeData" /\ value = AbbottAndCostello)
         => out = AbbottAndCostelloEscaped

\* An input with an '&' of each kind has been escaped.
C2_Witness ==
  /\ op = "escapeData"
  /\ value = AbbottAndCostello
  /\ out = AbbottAndCostelloEscaped

---------------------------------------------------------------------------
(* C3 *)

\* C3 as stated: the output holds no U+0000, and every U+0000 of the input
\* is rendered as a reference to U+FFFD ('&#xfffd' or '&#65533'; the Entity
\* Table has no name for U+FFFD), never as the raw U+FFFD.
C3_NulEscaped ==
  Called =>
    /\ 0 \notin Range(out)
    /\ Renders([i \in DOMAIN value |->
                  IF value[i] = 0
                  THEN Exactly({<<38, 35, 120, 102, 102, 102, 100>>,
                                <<38, 35, 54, 53, 53, 51, 51>>})
                  ELSE Free(value[i])],
               out)

\* C3 amended: the output holds no U+0000, and every U+0000 of the input is
\* rendered as U+FFFD: as the raw character, unless escapeRanges holds
\* 'non-ascii' and the class's non-ascii pattern reaches U+FFFD (that of
\* src/src/entities.ts does), and then as the numeric reference of U+FFFD in
\* the configured base.
C3_NulRendered ==
  Called =>
    /\ 0 \notin Range(out)
    /\ Renders([i \in DOMAIN value |->
                  IF value[i] = 0
                  THEN IF "non-ascii" \in Opts.escapeRanges
                          /\ Opts.variant = "entities"
                       THEN IF Opts.escapeBase = 16
                            THEN Exactly({<<38, 35, 120, 102, 102, 102, 100>>})
                            ELSE Exactly({<<38, 35, 54, 53, 53, 51, 51>>})
                       ELSE Exactly({<<65533>>})
                  ELSE Free(value[i])],
               out)

\* escapeData('\u0000') under the default options has returned the raw U+FFFD.
C3_Witness ==
  /\ op = "escapeData"
  /\ value = <<0>>
  /\ Opts.escapeRanges = {"control", "nonbreaking-space"}
  /\ Opts.escapeBase = 16
  /\ Opts.forceEscape
  /\ out = <<65533>>

---------------------------------------------------------------------------
(* C4 *)

\* C4: an operation returns a string made only of [A-Za-z0-9_ ] unchanged
\* without running any stage, and runs the four stages, in order, on every
\* other string.
C4_FastPath ==
  Called =>
    IF WordOrSpaceOnly(value)
    THEN out = value /\ path = <<>>
    ELSE path = <<"replaceNull", "escapeAmpersand", "context", "escapeRanges">>

\* 'a b' has gone through escapeUnquotedAttribute untouched.
C4_Witness ==
  /\ op = "escapeUnquotedAttribute"
  /\ value = <<97, 32, 98>>
  /\ out = value
  /\ path = <<>>

---------------------------------------------------------------------------
(* C5 *)

\* The ranges as the configuration names them: control is U+0000-U+001F,
\* U+007F and U+0080-U+009F, nonbreaking-space is U+00A0, non-ascii is
\* every code point from U+0080 upward.
InEnabledRange(c, ranges) ==
  \/ "control" \in ranges /\ c \in (0..31) \cup {127} \cup (128..159)
  \/ "nonbreaking-space" \in ranges /\ c = 160
  \/ "non-ascii" \in ranges /\ c >= 128

\* C5: with forceEscape true, every input character that is neither a
\* mandatory target of the operation nor an '&' before an ASCII letter or
\* digit is rendered as a reference if it lies in an enabled range and as
\* itself if not (U+0000 being taken as the U+FFFD it is substituted by);
\* and with 'non-ascii' enabled no code point from U+0080 upward is left in
\* the output.  Both Escaper classes are covered.
C5_RangeRule ==
  (Called /\ Opts.forceEscape) =>
    /\ Renders([i \in DOMAIN value |->
                  IF \/ value[i] \in MandatoryTargets(op)
                     \/ AmpersandBeforeAlnum(value, i)
                  THEN Free(value[i])
                  ELSE IF InEnabledRange(NulAsReplacement(value[i]),
                                         Opts.escapeRanges)
                       THEN AReference
                       ELSE Exactly({<<NulAsReplacement(value[i])>>})],
               out)
    /\ "non-ascii" \in Opts.escapeRanges => \A i \in DOMAIN out : out[i] < 128

---------------------------------------------------------------------------
(* C6 *)

\* The escape form of the replacement of c: the entity of the replacement
\* string, else the numeric reference of its first code point.
ReplacementReference(c, base) ==
  LET to == replacementLookup[<<c>>] IN
  IF to \in DOMAIN entityLookup THEN entityLookup[to]
  ELSE IF base = 10 THEN <<38, 35>> \o ToString10(to[1])
  ELSE <<38, 35, 120>> \o ToString16(to[1])

\* C6: with forceEscape false every input character (U+0000 aside) that has
\* a Replacement Table entry is rendered as itself, in any operation and
\* whether or not a range or the context selects it; with forceEscape true
\* such a character, when the context or an enabled range selects it, is
\* rendered as the escape form of its replacement.
C6_ReplacementTable ==
  Called =>
    Renders([i \in DOMAIN value |->
               IF value[i] # 0 /\ <<value[i]>> \in DOMAIN replacementLookup
               THEN IF ~Opts.forceEscape
                    THEN Exactly({<<value[i]>>})
                    ELSE IF \/ value[i] \in MandatoryTargets(op)
                            \/ InEnabledRange(value[i], Opts.escapeRanges)
                         THEN Exactly({ReplacementReference(value[i], Opts.escapeBase)})
                         ELSE Free(value[i])
               ELSE Free(value[i])],
            out)

\* NBSP, selected by the nonbreaking-space range, has come out unchanged
\* of an Escaper with forceEscape false.
C6_Witness ==
  /\ Called
  /\ ~Opts.forceEscape
  /\ "nonbreaking-space" \in Opts.escapeRanges
  /\ 160 \in Range(value)
  /\ 160 \in Range(out)

---------------------------------------------------------------------------
(* C7 *)

\* What is escaped in place of c: its replacement when forceEscape is set
\* and the Replacement Table has one, else c itself (U+0000 as U+FFFD).
EscapedAs(c, force) ==
  IF force /\ <<c>> \in DOMAIN replacementLookup
  THEN replacementLookup[<<c>>]
  ELSE <<NulAsReplacement(c)>>

\* s10 and s16 render the characters cs alike, piece by piece, except that
\* where s10 has '&#' and the decimal digits of a code point without entity,
\* s16 has '&#x' and its lowercase hexadecimal digits.
RECURSIVE SameButBase(_, _, _, _)
SameButBase(cs, force, s10, s16) ==
  IF cs = <<>> THEN s10 = <<>> /\ s16 = <<>>
  ELSE LET raw == <<NulAsReplacement(Head(cs))>>
           e == EscapedAs(Head(cs), force)
       IN
       \/ /\ IsPrefix(raw, s10) /\ IsPrefix(raw, s16)
          /\ SameButBase(Tail(cs), force, Drop(s10, 1), Drop(s16, 1))
       \/ /\ e \in DOMAIN entityLookup
          /\ IsPrefix(entityLookup[e], s10) /\ IsPrefix(entityLookup[e], s16)
          /\ SameButBase(Tail(cs), force, Drop(s10, Len(entityLookup[e])),
                         Drop(s16, Len(entityLookup[e])))
       \/ /\ e \notin DOMAIN entityLookup
          /\ \E k10 \in 3..Len(s10), k16 \in 4..Len(s16) :
               /\ IsDecimalReference(SubSeq(s10, 1, k10), e[1])
               /\ IsHexReference(SubSeq(s16, 1, k16), e[1])
               /\ SameButBase(Tail(cs), force, Drop(s10, k10), Drop(s16, k16))

\* C7: the outputs of two Escapers that differ only in escapeBase, on the
\* same operation and input, differ only at the references of the escaped
\* characters without a named entity: '&#' and decimal digits under base
\* 10, '&#x' and lowercase hexadecimal digits under base 16.
C7_EscapeBase ==
  Called =>
    SameButBase(value, Opts.forceEscape,
                Escape(op, value, [Opts EXCEPT !.escapeBase = 10]),
                Escape(op, value, [Opts EXCEPT !.escapeBase = 16]))

\* Form feed, which has no entity, has come out as '&#12' of a base-10
\* Escaper, where a base-16 Escaper gives '&#xc'.
C7_Witness ==
  /\ op = "escapeUnquotedAttribute"
  /\ value = <<12>>
  /\ Opts.escapeBase = 10
  /\ out = <<38, 35, 49, 50>>
  /\ Escape(op, value, [Opts EXCEPT !.escapeBase = 16]) = <<38, 35, 120, 99>>

---------------------------------------------------------------------------
(* C8 *)

\* The input with each U+0000 read as U+FFFD: the output differs from it
\* exactly when the Escaper emitted a reference.
NulSubstituted(v) == [i \in DOMAIN v |-> NulAsReplacement(v[i])]

\* C8: whenever the output of an operation holds a reference the Escaper
\* emitted, applying the same operation to the output changes it.
C8_NotIdempotent ==
  (Called /\ out # NulSubstituted(value)) => Escape(op, out, Opts) # out

---------------------------------------------------------------------------
(* C10 *)

\* The length of the longest run of digits (of the radix) s starts with.
RECURSIVE DigitRun(_, _)
DigitRun(s, radix) ==
  IF s # <<>> /\ (IF radix = 16 THEN IsHexDigit(s[1]) ELSE IsDecDigit(s[1]))
  THEN 1 + DigitRun(Tail(s), radix)
  ELSE 0

\* s without a leading ';'.
SkipSemicolon(s) == IF s # <<>> /\ s[1] = 59 THEN Tail(s) ELSE s

\* The text an HTML tokenizer reads from s: named references of the Entity
\* Table, '&#' with the longest run of decimal digits, '&#x' with the
\* longest run of hexadecimal digits, the semicolon optional.
RECURSIVE Decode(_)
Decode(s) ==
  IF s = <<>> THEN <<>>
  ELSE IF s[1] # 38 THEN <<s[1]>> \o Decode(Tail(s))
  ELSE IF Len(s) >= 4 /\ s[2] = 35 /\ s[3] \in {120, 88} /\ IsHexDigit(s[4])
       THEN LET k == DigitRun(Drop(s, 3), 16) IN
            <<ParseRadix(SubSeq(s, 4, 3 + k), 16)>>
              \o Decode(SkipSemicolon(Drop(s, 3 + k)))
  ELSE IF Len(s) >= 3 /\ s[2] = 35 /\ IsDecDigit(s[3])
       THEN LET k == DigitRun(Drop(s, 2), 10) IN
            <<ParseRadix(SubSeq(s, 3, 2 + k), 10)>>
              \o Decode(SkipSemicolon(Drop(s, 2 + k)))
  ELSE IF \E e \in entities : IsPrefix(e.entity, s)
       THEN LET e == CHOOSE e \in entities : IsPrefix(e.entity, s) IN
            e.character \o Decode(Drop(s, Len(e.entity)))
  ELSE <<38>> \o Decode(Tail(s))

\* C10: with forceEscape true and an input free of Replacement Table
\* characters, decoding the output gives the input back, U+0000 as U+FFFD.
C10_RoundTrip ==
  (Called /\ Opts.forceEscape
     /\ \A i \in DOMAIN value : <<value[i]>> \notin DOMAIN replacementLookup)
    => Decode(out) = NulSubstituted(value)

---------------------------------------------------------------------------
(* C9 *)

\* C9: whatever the caller does after the constructor returned (calls, changes
\* to the options object it passed, to the escapeRanges array in it, to
\* Options.defaults), every operation of the instance gives on every input
\* the result it gave when the constructor returned.
C9_FixedAtConstruction ==
  \A name \in OpNames, v \in ProbeInputs :
    Escape(name, v, Deref(escaper, arrays)) = Escape(name, v, built)

===========================================================================
